---------------------------- MODULE Spec2Model ----------------------------
(***************************************************************************)
(* A model of soarsdk: the entity merge/serialisation discipline of        *)
(* objects.py (PhantomObject.update / PhantomObject.toDict) and the        *)
(* transport and playbook orchestration of client.py (PhantomClient).      *)
(*                                                                         *)
(* Python values are modelled as pairs <<kind, content>>: content 0 is the *)
(* empty value of the kind ("" / 0 / False / [] / {}), a content >= 1 is   *)
(* one particular non-empty value of that kind.  None is <<"none", 0>>.    *)
(***************************************************************************)
EXTENDS Integers, Sequences, FiniteSets, TLC

VARIABLES
    held,       \* the entity update() is called on (self.__dict__)
    incoming,   \* the entity passed to update(object)
    kwargs,     \* the keyword arguments passed to update(**kwargs)
    before,     \* held as it was before the last update()
    data,       \* the dict returned by the last toDict()
    estep,      \* "built" | "merged" | "dumped"
    mode        \* which branch of update() ran: "none" | "object" | "kwargs"

evars == <<held, incoming, kwargs, before, data, estep, mode>>

VARIABLES
    op,                 \* the client call in progress or last made
    pc,                 \* where that call stands
    kw,                 \* the keyword arguments PhantomClient() was called with
    session,            \* self.session: "unset" | "fresh" | "given" | "None"
    headers,            \* names of the headers installed on self.session
    requests_log,       \* self.requests_log
    wire,               \* every HTTP request sent so far, with its response status
    error,              \* the exception the current call raised, or NoError
    container,          \* the Container object the call was made with
    objs,               \* the Playbook objects, by identity (index)
    args,               \* *args of run_playbooks: Playbook object identities
    playbooks_not_ran,  \* the local list run_playbooks iterates over
    idx,                \* position of `playbook` in playbooks_not_ran
    playbook_running,   \* the local flag of the poll loop
    pending_approvals,  \* the list check_approvals returned last
    aidx,               \* position of `approval` within answer_approvals
    updated_playbooks,  \* run records get_playbook_runs has fetched
    ridx,               \* the run record get_playbook_runs is enriching
    act,                \* the action get_action_runs is enriching
    nextRun,            \* remote: the next playbook_run_id the platform assigns
    loops               \* per started run: what its poll loop saw and did

VARIABLES
    req_method,         \* the method argument of a direct _handle_request call
    arts,               \* the Artifact objects, by identity (index)
    targets,            \* *args of create_artifacts / delete_artifact / delete_container
    tidx,               \* position of the loop over targets
    at_call,            \* container and arts as they were when the call was made
    sent                \* the artifacts carried by the creation requests sent so far

avars == <<req_method, arts, targets, tidx, at_call, sent>>

VARIABLES
    action_builder,     \* self.action_builder: the cached catalog
    listed,             \* what the last get_apps / get_actions / get_assets returned
    calls,              \* calls made so far of the operation that is repeated
    first               \* the container and its objects after the first refresh

bvars == <<action_builder, listed, calls, first>>

cvars == <<op, pc, kw, session, headers, requests_log, wire, error, container, objs,
           args, playbooks_not_ran, idx, playbook_running, pending_approvals,
           aidx, updated_playbooks, ridx, act, nextRun, loops, avars, bvars>>

vars == <<evars, cvars>>

-----------------------------------------------------------------------------
(* Bounds *)

\* number of distinct non-empty string contents
MaxContent == 2

-----------------------------------------------------------------------------
(* Python values and truthiness *)

None == <<"none", 0>>
PyStr(n) == <<"str", n>>
PyInt(n) == <<"int", n>>
PyBool(n) == <<"bool", n>>
PyList(n) == <<"list", n>>
PyDict(n) == <<"dict", n>>

\* bool(v): None, "", 0, False, [] and {} are falsy, everything else truthy
Truthy(v) == v[1] # "none" /\ v[2] # 0

-----------------------------------------------------------------------------
(* Entities: Container restricted to one field of every kind of default *)

Fields == {"name", "id", "tags", "custom_fields", "in_case", "sensitivity"}

\* "red"
Red == PyStr(1)

\* kwargs.get(field, default) of Container.__init__
Default(f) ==
    CASE f = "name" -> None
      [] f = "id" -> None
      [] f = "tags" -> PyList(0)
      [] f = "custom_fields" -> PyDict(0)
      [] f = "in_case" -> PyBool(0)
      [] f = "sensitivity" -> Red

\* the values a caller or the remote platform puts into a field
FieldValues(f) ==
    CASE f = "name" -> {None} \cup {PyStr(n) : n \in 0..MaxContent}
      [] f = "id" -> {None, PyInt(0), PyInt(1)}
      [] f = "tags" -> {PyList(0), PyList(1)}
      [] f = "custom_fields" -> {PyDict(0), PyDict(1)}
      [] f = "in_case" -> {PyBool(0), PyBool(1)}
      [] f = "sensitivity" -> {PyStr(n) : n \in 0..MaxContent}

\* Container(**kwargs) for every choice of kwargs
Entities ==
    { [name |-> n, id |-> i, tags |-> t, custom_fields |-> c,
       in_case |-> b, sensitivity |-> s] :
        n \in FieldValues("name"), i \in FieldValues("id"),
        t \in FieldValues("tags"), c \in FieldValues("custom_fields"),
        b \in FieldValues("in_case"), s \in FieldValues("sensitivity") }

\* Container()
NewEntity == [f \in Fields |-> Default(f)]

\* update(**kwargs) with one keyword
KwargSets ==
    UNION { { [k \in {f} |-> v] : v \in FieldValues(f) } : f \in Fields }

NoKwargs == [k \in {} |-> None]

\* a mutation of update(): every incoming value overwrites, empty or not
updateOverwriteAll(self, object) ==
    [f \in DOMAIN self |-> object[f]]

\* a mutation of update(): the held value wins whenever it is non-empty
updateKeepHeld(self, object) ==
    [f \in DOMAIN self |-> IF Truthy(self[f]) THEN self[f] ELSE object[f]]

\* PhantomObject.update(object): for k, v in object.__dict__.items(): if v: self[k] = v
updateObject(self, object) ==
    [f \in DOMAIN self \cup DOMAIN object |->
        IF f \in DOMAIN object /\ Truthy(object[f]) THEN object[f] ELSE self[f]]

\* PhantomObject.update(**kwargs): for k, v in kwargs.items(): self[k] = v
updateKwargs(self, kws) ==
    [f \in DOMAIN self \cup DOMAIN kws |->
        IF f \in DOMAIN kws THEN kws[f] ELSE self[f]]

\* PhantomObject.toDict(): data[key] = value for every key with a truthy value
toDict(self) ==
    [f \in {g \in DOMAIN self : Truthy(self[g])} |-> self[f]]

-----------------------------------------------------------------------------
(* The entity operations *)

EntityInit ==
    /\ held \in Entities
    /\ incoming = NewEntity
    /\ kwargs = NoKwargs
    /\ before = held
    /\ data = NoKwargs
    /\ estep = "built"
    /\ mode = "none"

\* held.update(object)
Update ==
    /\ estep = "built"
    /\ \E object \in Entities :
        /\ incoming' = object
        /\ held' = updateObject(held, object)
    /\ before' = held
    /\ estep' = "merged"
    /\ mode' = "object"
    /\ UNCHANGED <<kwargs, data, cvars>>

\* held.update(**kwargs)
UpdateKw ==
    /\ estep = "built"
    /\ \E kws \in KwargSets :
        /\ kwargs' = kws
        /\ held' = updateKwargs(held, kws)
    /\ before' = held
    /\ estep' = "merged"
    /\ mode' = "kwargs"
    /\ UNCHANGED <<incoming, data, cvars>>

\* held.toDict()
ToDict ==
    /\ estep \in {"built", "merged"}
    /\ data' = toDict(held)
    /\ estep' = "dumped"
    /\ UNCHANGED <<held, incoming, kwargs, before, mode, cvars>>

-----------------------------------------------------------------------------
(* The client: bounds *)

\* status queries answered "running" within one run_playbooks call
MaxPolls == 2

\* non-empty pending-approval lists returned within one run_playbooks call
MaxPendings == 1

\* run records one refresh returns
MaxRecords == 1

\* artifacts, pins, comments or notes one refresh returns
MaxItems == 1

\* actions one run record has
MaxActions == 1

-----------------------------------------------------------------------------
(* HTTP responses and the exceptions of exceptions.py *)

\* a response: its status code, and whether its body parses as a JSON object
Responses ==
    { [status |-> 200, json |-> TRUE],
      [status |-> 400, json |-> TRUE],
      [status |-> 500, json |-> TRUE],
      [status |-> 500, json |-> FALSE] }

NoError == [type |-> "none", error_code |-> 0, dump |-> FALSE, playbook |-> 0]

\* an exception that carries no further attribute
Exc(t) == [NoError EXCEPT !.type = t]

\* a mutation: no exception is ever seen as raised
RaisedNever(e) == FALSE

Raised(e) == e.type # "none"

\* ServerException.__init__: response.json().get("message") parses the body
\* first; error_code is the status; for 400 error_msg is the full dump
ServerException(resp) ==
    IF resp.json
    THEN [type |-> "ServerException", error_code |-> resp.status,
          dump |-> (resp.status = 400), playbook |-> 0]
    ELSE Exc("JSONDecodeError")

\* PlaybookException(playbook)
PlaybookException(p) == [Exc("PlaybookException") EXCEPT !.playbook = p]

\* response.raise_for_status() raises HTTPError
HTTPError(resp) == resp.status >= 400

\* a mutation of test_authorization: every status is accepted
NotAuthorizedNever(resp) == FALSE

\* what test_authorization compares: not response.status_code == 200
NotAuthorized(resp) == resp.status # 200

\* one request/response pair
Entry(method, url, id, resp) ==
    [method |-> method, url |-> url, id |-> id, status |-> resp.status]

\* _generate_log, the response hook _handle_request installs
generate_log(log, entry) == Append(log, entry)

\* _handle_request from raise_for_status on: the exception it raises, if any
\* (return_json is left at True by every caller modelled here)
handle_request_error(resp) ==
    IF HTTPError(resp) THEN ServerException(resp)
    ELSE IF ~resp.json THEN Exc("JSONDecodeError")
    ELSE NoError

\* self.session.get(url, verify=False): a request with no response hook
SessionGet(url, resp) ==
    /\ wire' = Append(wire, Entry("GET", url, 0, resp))
    /\ UNCHANGED requests_log

-----------------------------------------------------------------------------
(* PhantomClient.__init__ *)

NoKw == [session |-> FALSE, username |-> FALSE, password |-> FALSE,
         token |-> FALSE]

\* the argument combinations PhantomClient() is called with
ClientKwargs ==
    { NoKw,
      [NoKw EXCEPT !.session = TRUE],
      [NoKw EXCEPT !.username = TRUE],
      [NoKw EXCEPT !.password = TRUE],
      [NoKw EXCEPT !.username = TRUE, !.password = TRUE],
      [NoKw EXCEPT !.token = TRUE],
      [NoKw EXCEPT !.username = TRUE, !.password = TRUE, !.token = TRUE],
      [NoKw EXCEPT !.session = TRUE, !.token = TRUE] }

NoContainer ==
    [id |-> 0, name |-> <<>>, label |-> <<>>, playbooks |-> <<>>,
     artifacts |-> <<>>, pins |-> <<>>, comments |-> <<>>, notes |-> <<>>]

locals == <<args, playbooks_not_ran, idx, playbook_running, pending_approvals,
            aidx, updated_playbooks, ridx>>

world == <<container, objs, nextRun, loops>>

ClientInit ==
    /\ op = "__init__"
    /\ pc = "new"
    /\ kw = NoKw
    /\ session = "unset"
    /\ headers = {}
    /\ requests_log = <<>>
    /\ wire = <<>>
    /\ error = NoError
    /\ container = NoContainer
    /\ objs = <<>>
    /\ args = <<>>
    /\ playbooks_not_ran = <<>>
    /\ idx = 0
    /\ playbook_running = FALSE
    /\ pending_approvals = <<>>
    /\ aidx = 0
    /\ updated_playbooks = <<>>
    /\ ridx = 0
    /\ act = 0
    /\ nextRun = 2
    /\ loops = <<>>
    /\ req_method = "none"
    /\ arts = <<>>
    /\ targets = <<>>
    /\ tidx = 0
    /\ at_call = [container |-> NoContainer, arts |-> <<>>]
    /\ sent = <<>>
    /\ action_builder = <<>>
    /\ listed = 0
    /\ calls = 0
    /\ first = [container |-> NoContainer, objs |-> <<>>,
               updated_playbooks |-> <<>>, pins_before |-> 0]

\* a mutation of the pairing check of __init__: no check
IncompletePairNever(k) == FALSE

\* bool(kwargs.get("username")) ^ bool(kwargs.get("password"))
IncompletePair(k) == k.username # k.password

\* not session and not username and not splunkToken
NothingSupplied(k) == ~k.session /\ ~k.username /\ ~k.token

\* the authentication strategies a call names: an API token, a
\* username/password pair, a prepared session
Strategies(k) ==
    (IF k.token THEN {"token"} ELSE {})
    \cup (IF k.username /\ k.password THEN {"pair"} ELSE {})
    \cup (IF k.session THEN {"session"} ELSE {})

\* __init__ up to the first request: the two argument checks, then the
\* choice between connect() and test_authorization()
Construct ==
    /\ pc = "new"
    /\ \E k \in ClientKwargs :
        /\ kw' = k
        /\ IF IncompletePair(k)
           THEN /\ error' = Exc("AuthenticationError")
                /\ pc' = "failed"
                /\ UNCHANGED session
           ELSE IF NothingSupplied(k)
           THEN /\ error' = Exc("ConnectionError")
                /\ pc' = "failed"
                /\ UNCHANGED session
           ELSE /\ error' = NoError
                /\ session' = IF k.session THEN "given" ELSE "fresh"
                /\ pc' = IF k.session THEN "test_authorization"
                         ELSE IF k.username /\ k.password
                              THEN "password_authenticate"
                              ELSE "token_authenticate"
    /\ UNCHANGED <<evars, bvars, avars, op, headers, requests_log, wire, locals, act, world>>

\* connect() -> password_authenticate(): the login request, raise_for_status,
\* then _set_session_headers(self.base_url, self.session), which takes no
\* argument besides self and so raises TypeError
PasswordAuthenticate ==
    /\ pc = "password_authenticate"
    /\ \E resp \in Responses :
        /\ SessionGet("login", resp)
        /\ error' = IF HTTPError(resp) THEN Exc("HTTPError") ELSE Exc("TypeError")
    /\ pc' = "failed"
    /\ UNCHANGED <<evars, bvars, avars, op, kw, session, headers, locals, act, world>>

\* connect() -> token_authenticate(): install the token header, validate;
\* token_authenticate returns None, connect() stores that as self.session
\* and its own test_authorization() then fails on None.get
TokenAuthenticate ==
    /\ pc = "token_authenticate"
    /\ headers' = headers \cup {"ph-auth-token", "server"}
    /\ \E resp \in Responses :
        /\ SessionGet("version", resp)
        /\ IF NotAuthorized(resp)
           THEN /\ error' = Exc("AuthenticationError")
                /\ UNCHANGED session
           ELSE /\ error' = Exc("AttributeError")
                /\ session' = "None"
    /\ pc' = "failed"
    /\ UNCHANGED <<evars, bvars, avars, op, kw, locals, act, world>>

\* __init__ with a session given: test_authorization()
TestAuthorization ==
    /\ pc = "test_authorization"
    /\ \E resp \in Responses :
        /\ SessionGet("version", resp)
        /\ IF NotAuthorized(resp)
           THEN error' = Exc("AuthenticationError") /\ pc' = "failed"
           ELSE error' = NoError /\ pc' = "ready"
    /\ UNCHANGED <<evars, bvars, avars, op, kw, session, headers, locals, act, world>>

-----------------------------------------------------------------------------
(* Playbook objects (objects.py, Playbook) and what the caller passes in *)

\* playbook names, as character sequences: "p" and "pq"
NameP == <<"p">>
NamePQ == <<"p", "q">>

NoPrompts == [n \in {} |-> 0]

\* Playbook(name=..., run_id=..., prompts=...): the other fields at default
NewPlaybook(name, run_id, prompts) ==
    [name |-> name, id |-> 0, playbook_id |-> 0, run_id |-> run_id,
     prompts |-> prompts, logs |-> <<>>, actions |-> 0]

\* the prompt mappings a caller configures: approval name -> responses
PromptSets == {NoPrompts, [n \in {"a"} |-> 1]}

\* run_id of a caller's Playbook: 0 for None, 1 for a run made earlier
EarlierRuns == {0, 1}

\* the Playbook objects of the caller: object 1 is "p", which may already
\* carry a run identifier from an earlier run; object 2 is "pq", never run
PlaybookHeaps ==
    { <<NewPlaybook(NameP, r1, pr), NewPlaybook(NamePQ, 0, NoPrompts)>> :
        r1 \in EarlierRuns, pr \in PromptSets }

\* Container(id=..., playbooks=[...]); id 0 stands for None
Containers ==
    { [NoContainer EXCEPT !.id = i, !.playbooks = p] :
        i \in {0, 1}, p \in {<<>>, <<1>>, <<1, 2>>} }

\* *args of run_playbooks, by object identity
ArgLists == {<<>>, <<1>>, <<2>>}

\* pending approvals as the platform lists them
ApprovalA == [id |-> 1, name |-> "a"]
ApprovalB == [id |-> 2, name |-> "b"]
ApprovalLists == {<<>>, <<ApprovalA>>, <<ApprovalB>>, <<ApprovalA, ApprovalB>>}

\* playbook logs as the platform lists them, by message_type (0: exception)
LogSets == {<<>>, <<1>>, <<1, 0>>}

\* names get_playbook_name_from_id returns
RunNames == {NameP, NamePQ}

-----------------------------------------------------------------------------
(* Pure helpers of run_playbooks *)

\* a in b, for strings
IsIn(a, b) == \E i \in 0..(Len(b) - Len(a)) : SubSeq(b, i + 1, i + Len(a)) = a

\* name.split("/")[-1]
LastSegment(name) ==
    LET slashes == {i \in 1..Len(name) : name[i] = "/"} IN
    IF slashes = {} THEN name
    ELSE SubSeq(name, (CHOOSE i \in slashes : \A j \in slashes : j <= i) + 1,
                Len(name))

\* Container.get_playbook(name=name): the first attached playbook whose name
\* contains the searched name; 0 stands for None
get_playbook(playbooks, os, name) ==
    LET hits == {i \in 1..Len(playbooks) :
                    IsIn(LastSegment(name), os[playbooks[i]].name)} IN
    IF name = <<>> \/ hits = {} THEN 0
    ELSE playbooks[CHOOSE i \in hits : \A j \in hits : i <= j]

\* bool(value) for the value of a Playbook field
NonEmpty(f, v) ==
    CASE f = "name" -> v # <<>>
      [] f = "logs" -> v # <<>>
      [] f = "prompts" -> DOMAIN v # {}
      [] OTHER -> v # 0

\* declared_playbook.update(playbook): PhantomObject.update on Playbook fields
PlaybookUpdate(self, object) ==
    [f \in DOMAIN self |-> IF NonEmpty(f, object[f]) THEN object[f] ELSE self[f]]

\* a mutation of get_exceptions: the wrong message_type
get_exceptions_type1(logs) == SelectSeq(logs, LAMBDA log : log = 1)

\* Playbook.get_exceptions: the logs with message_type 0
get_exceptions(logs) == SelectSeq(logs, LAMBDA log : log = 0)

\* Playbook.exception_occurred
exception_occurred(playbook) == get_exceptions(playbook.logs) # <<>>

\* a mutation of the first guard of run_playbooks: no identity check
NotInitializedNever(c) == FALSE

\* not container.id
NotInitialized(c) == c.id = 0

\* not container.playbooks and not args
NoPlaybooks(c, a) == c.playbooks = <<>> /\ a = <<>>

\* playbooks_not_ran: the attached playbooks without run_id, then all of args
PlaybooksNotRan(c, os, a) ==
    SelectSeq(c.playbooks, LAMBDA p : os[p].run_id = 0) \o a

\* a mutation of playbooks_running_bool: the loop never goes round again
playbooks_running_bool_never(count) == FALSE

\* a mutation of is_playbook_running: >= for >
playbooks_running_bool_ge(count) == count >= 0

\* is_playbook_running: response.get("count", 0) > 0
playbooks_running_bool(count) == count > 0

\* a mutation of answer_approvals: the lookup never misses
MissingPromptNever(name, prompts) == FALSE

\* answer_approvals: approval_name not in playbook.prompts
MissingPrompt(name, prompts) == name \notin DOMAIN prompts

\* the loop of update_container_values over updated_playbooks: merge a run
\* record into the declared playbook of that name, or append it
RECURSIVE MergeRuns(_, _, _)
MergeRuns(c, os, recs) ==
    IF recs = <<>> THEN <<c, os>>
    ELSE LET playbook == Head(recs)
             declared == get_playbook(c.playbooks, os, playbook.name) IN
         IF declared # 0
         THEN MergeRuns(c, [os EXCEPT ![declared] = PlaybookUpdate(@, playbook)],
                        Tail(recs))
         ELSE MergeRuns([c EXCEPT !.playbooks = Append(@, Len(os) + 1)],
                        Append(os, playbook), Tail(recs))

\* the closing loop of run_playbooks: the first attached playbook with an
\* exception, 0 when there is none
FirstException(c, os) ==
    LET bad == {i \in 1..Len(c.playbooks) : exception_occurred(os[c.playbooks[i]])} IN
    IF bad = {} THEN 0 ELSE c.playbooks[CHOOSE i \in bad : \A j \in bad : i <= j]

RECURSIVE SumSeq(_)
SumSeq(s) == IF s = <<>> THEN 0 ELSE Head(s) + SumSeq(Tail(s))

\* "running" answers received so far in this call
RunningSeen == SumSeq([i \in 1..Len(loops) |-> SumSeq(loops[i].status)])

\* non-empty pending-approval lists received so far in this call
PendingsSeen ==
    SumSeq([i \in 1..Len(loops) |->
        Len(SelectSeq(loops[i].pendings, LAMBDA n : n > 0))])

\* the record of the poll loop of the run started last
ThisLoop == loops[Len(loops)]

NoteLoop(f, v) == [loops EXCEPT ![Len(loops)][f] = v]

-----------------------------------------------------------------------------
(* PhantomClient.run_playbooks *)

\* one request through _handle_request: sent, and logged by the hook
Send(method, url, id, resp) ==
    /\ wire' = Append(wire, Entry(method, url, id, resp))
    /\ requests_log' = generate_log(requests_log, Entry(method, url, id, resp))

\* a mutation of answer_approvals: no configured response is passed on
PromptResponsesNone(prompts, name) == 0

\* playbook.prompts[approval_name]; 0 when the mapping has no such name
PromptResponses(prompts, name) ==
    IF name \in DOMAIN prompts THEN prompts[name] ELSE 0

NewLoop(p, had, returned) ==
    [playbook |-> p, had |-> had, returned |-> returned, status |-> <<>>,
     pendings |-> <<>>, answered |-> <<>>, exited |-> FALSE]

\* a mutation of the poll loop: one pass at most
EndIterationOnce(lp) ==
    /\ pc' = IF idx < Len(playbooks_not_ran) THEN "start_run"
             ELSE "get_containers"
    /\ idx' = idx + 1
    /\ loops' = [lp EXCEPT ![Len(lp)].exited = TRUE]

\* the end of one pass of `while playbook_running`: again, or on to the next
\* playbook of playbooks_not_ran, or to update_container_values
EndIteration(lp) ==
    IF playbook_running
    THEN /\ pc' = "is_playbook_running"
         /\ idx' = idx
         /\ loops' = lp
    ELSE /\ pc' = IF idx < Len(playbooks_not_ran) THEN "start_run"
                  ELSE "get_containers"
         /\ idx' = idx + 1
         /\ loops' = [lp EXCEPT ![Len(lp)].exited = TRUE]

\* run_playbooks(container, *args) up to the first request: the two guards
\* and the list of playbooks to start
RunPlaybooks ==
    /\ pc = "ready"
    /\ op' = "run_playbooks"
    /\ \E c \in Containers, os \in PlaybookHeaps, a \in ArgLists :
        /\ container' = c
        /\ objs' = os
        /\ args' = a
        /\ IF NotInitialized(c)
           THEN /\ error' = Exc("ContainerNotInitialized")
                /\ pc' = "failed"
                /\ UNCHANGED <<playbooks_not_ran, idx>>
           ELSE IF NoPlaybooks(c, a)
           THEN /\ error' = Exc("AttributeError")
                /\ pc' = "failed"
                /\ UNCHANGED <<playbooks_not_ran, idx>>
           ELSE /\ error' = NoError
                /\ playbooks_not_ran' = PlaybooksNotRan(c, os, a)
                /\ idx' = 1
                /\ pc' = IF PlaybooksNotRan(c, os, a) = <<>> THEN "get_containers"
                         ELSE "start_run"
    /\ UNCHANGED <<evars, bvars, avars, kw, session, headers, requests_log, wire, playbook_running,
                   pending_approvals, aidx, updated_playbooks, ridx, act,
                   nextRun, loops>>

\* the start request of playbooks_not_ran[idx]
StartRun ==
    /\ pc = "start_run"
    /\ \E resp \in Responses :
        /\ Send("POST", "playbook_run", 0, resp)
        /\ error' = handle_request_error(resp)
        /\ IF Raised(handle_request_error(resp))
           THEN /\ pc' = "failed"
                /\ UNCHANGED <<objs, playbook_running, nextRun, loops>>
           ELSE /\ objs' = [objs EXCEPT ![playbooks_not_ran[idx]].run_id = nextRun]
                /\ nextRun' = nextRun + 1
                /\ playbook_running' = TRUE
                /\ loops' = Append(loops,
                        NewLoop(playbooks_not_ran[idx],
                                objs[playbooks_not_ran[idx]].run_id, nextRun))
                /\ pc' = "is_playbook_running"
    /\ UNCHANGED <<evars, bvars, avars, op, kw, session, headers, container, args, playbooks_not_ran, idx,
                   pending_approvals, aidx, updated_playbooks, ridx, act>>

\* is_playbook_running(container): the status query
IsPlaybookRunning ==
    /\ pc = "is_playbook_running"
    /\ \E resp \in Responses :
        /\ Send("GET", "playbook_run", 0, resp)
        /\ error' = handle_request_error(resp)
        /\ IF Raised(handle_request_error(resp))
           THEN /\ pc' = "failed"
                /\ UNCHANGED <<playbook_running, loops>>
           ELSE \E count \in 0..1 :
                /\ count > 0 => RunningSeen < MaxPolls
                /\ playbook_running' = playbooks_running_bool(count)
                /\ loops' = NoteLoop("status", Append(ThisLoop.status, count))
                /\ pc' = "check_approvals"
    /\ UNCHANGED <<evars, bvars, avars, op, kw, session, headers, container, objs, args, playbooks_not_ran,
                   idx, pending_approvals, aidx, updated_playbooks, ridx, act,
                   nextRun>>

\* check_approvals(container), then `if pending_approvals:`
CheckApprovals ==
    /\ pc = "check_approvals"
    /\ \E resp \in Responses :
        /\ Send("GET", "approval", 0, resp)
        /\ error' = handle_request_error(resp)
        /\ IF Raised(handle_request_error(resp))
           THEN /\ pc' = "failed"
                /\ UNCHANGED <<pending_approvals, aidx, idx, loops>>
           ELSE \E approvals \in ApprovalLists :
                /\ approvals # <<>> => PendingsSeen < MaxPendings
                /\ pending_approvals' = approvals
                /\ IF approvals # <<>>
                   THEN /\ pc' = "answer_approvals"
                        /\ aidx' = 1
                        /\ idx' = idx
                        /\ loops' = NoteLoop("pendings",
                                Append(ThisLoop.pendings, Len(approvals)))
                   ELSE /\ aidx' = aidx
                        /\ EndIteration(NoteLoop("pendings",
                                Append(ThisLoop.pendings, Len(approvals))))
    /\ UNCHANGED <<evars, bvars, avars, op, kw, session, headers, container, objs, args, playbooks_not_ran,
                   playbook_running, updated_playbooks, ridx, act, nextRun>>

\* answer_approvals: one pass of `for approval in approvals`
AnswerApprovals ==
    /\ pc = "answer_approvals"
    /\ LET approval == pending_approvals[aidx]
           playbook == objs[playbooks_not_ran[idx]] IN
       IF MissingPrompt(approval.name, playbook.prompts)
       THEN /\ error' = Exc("MissingApprovalResponse")
            /\ pc' = "failed"
            /\ UNCHANGED <<requests_log, wire, idx, aidx, loops>>
       ELSE \E resp \in Responses :
            /\ Send("POST", "approval", approval.id, resp)
            /\ error' = handle_request_error(resp)
            /\ IF Raised(handle_request_error(resp))
               THEN /\ pc' = "failed"
                    /\ UNCHANGED <<idx, aidx, loops>>
               ELSE LET lp == NoteLoop("answered",
                                Append(ThisLoop.answered,
                                       [id |-> approval.id,
                                        name |-> approval.name,
                                        responses |->
                                            PromptResponses(playbook.prompts,
                                                            approval.name)])) IN
                    IF aidx < Len(pending_approvals)
                    THEN /\ aidx' = aidx + 1
                         /\ pc' = "answer_approvals"
                         /\ idx' = idx
                         /\ loops' = lp
                    ELSE /\ aidx' = aidx
                         /\ EndIteration(lp)
    /\ UNCHANGED <<evars, bvars, avars, op, kw, session, headers, container, objs, args, playbooks_not_ran,
                   playbook_running, pending_approvals, updated_playbooks, ridx,
                   act, nextRun>>

-----------------------------------------------------------------------------
(* PhantomClient.update_container_values, as run_playbooks calls it *)

\* a list of n items
Items(n) == [i \in 1..n |-> i]

\* bool(value) for the value of a Container field
ContainerNonEmpty(f, v) == IF f = "id" THEN v # 0 ELSE v # <<>>

\* container.update(get_containers(...)[0]): the fetched Container has the
\* same id and its sub-collections at their default, the empty list
ContainerUpdate(self) ==
    LET object == [NoContainer EXCEPT !.id = self.id] IN
    [f \in DOMAIN self |->
        IF ContainerNonEmpty(f, object[f]) THEN object[f] ELSE self[f]]

\* Playbook(**row) for the i-th row of playbook_run?: the row's id and base
\* playbook; no name, no run_id, no prompts, no logs
RunRecord(i) ==
    [name |-> <<>>, id |-> i, playbook_id |-> i, run_id |-> 0,
     prompts |-> NoPrompts, logs |-> <<>>, actions |-> 0]

\* a step of the refresh that sends one GET and, if it succeeds, goes on
Fetch(url, id, resp) ==
    /\ Send("GET", url, id, resp)
    /\ error' = handle_request_error(resp)

GetContainers ==
    /\ pc = "get_containers"
    /\ \E resp \in Responses :
        /\ Fetch("container?", 0, resp)
        /\ IF Raised(handle_request_error(resp))
           THEN pc' = "failed" /\ UNCHANGED container
           ELSE pc' = "get_artifacts" /\ container' = ContainerUpdate(container)
    /\ UNCHANGED <<evars, bvars, avars, op, kw, session, headers, objs, locals, act, nextRun, loops>>

GetArtifacts ==
    /\ pc = "get_artifacts"
    /\ \E resp \in Responses :
        /\ Fetch("artifact?", 0, resp)
        /\ IF Raised(handle_request_error(resp))
           THEN pc' = "failed" /\ UNCHANGED container
           ELSE /\ pc' = "get_playbook_runs"
                /\ \E n \in 0..MaxItems :
                    container' = [container EXCEPT !.artifacts = Items(n)]
    /\ UNCHANGED <<evars, bvars, avars, op, kw, session, headers, objs, locals, act, nextRun, loops>>

\* get_playbook_runs: the list request
GetPlaybookRuns ==
    /\ pc = "get_playbook_runs"
    /\ \E resp \in Responses :
        /\ Fetch("playbook_run?", 0, resp)
        /\ IF Raised(handle_request_error(resp))
           THEN pc' = "failed" /\ UNCHANGED <<updated_playbooks, ridx>>
           ELSE \E n \in 0..MaxRecords :
                /\ updated_playbooks' = [i \in 1..n |-> RunRecord(i)]
                /\ ridx' = 1
                /\ pc' = IF n = 0 THEN "get_pins" ELSE "get_action_runs"
    /\ UNCHANGED <<evars, bvars, avars, op, kw, session, headers, container, objs, args, playbooks_not_ran,
                   idx, playbook_running, pending_approvals, aidx, act, nextRun,
                   loops>>

\* get_action_runs for the run record at ridx: the list request
GetActionRuns ==
    /\ pc = "get_action_runs"
    /\ \E resp \in Responses :
        /\ Fetch("action_run?", 0, resp)
        /\ IF Raised(handle_request_error(resp))
           THEN pc' = "failed" /\ UNCHANGED <<updated_playbooks, act>>
           ELSE \E m \in 0..MaxActions :
                /\ updated_playbooks' =
                        [updated_playbooks EXCEPT ![ridx].actions = m]
                /\ act' = 1
                /\ pc' = IF m = 0 THEN "get_playbook_name_from_id"
                         ELSE "get_app_runs"
    /\ UNCHANGED <<evars, bvars, avars, op, kw, session, headers, container, objs, args, playbooks_not_ran,
                   idx, playbook_running, pending_approvals, aidx, ridx, nextRun,
                   loops>>

\* get_action_runs: get_app_runs for the action at act
GetAppRuns ==
    /\ pc = "get_app_runs"
    /\ \E resp \in Responses :
        /\ Fetch("app_run?", 0, resp)
        /\ IF Raised(handle_request_error(resp))
           THEN pc' = "failed" /\ UNCHANGED act
           ELSE /\ act' = act + 1
                /\ pc' = IF act < updated_playbooks[ridx].actions
                         THEN "get_app_runs" ELSE "get_playbook_name_from_id"
    /\ UNCHANGED <<evars, bvars, avars, op, kw, session, headers, container, objs, locals, nextRun, loops>>

GetPlaybookNameFromId ==
    /\ pc = "get_playbook_name_from_id"
    /\ \E resp \in Responses :
        /\ Fetch("playbook", updated_playbooks[ridx].playbook_id, resp)
        /\ IF Raised(handle_request_error(resp))
           THEN pc' = "failed" /\ UNCHANGED updated_playbooks
           ELSE \E name \in RunNames :
                /\ updated_playbooks' =
                        [updated_playbooks EXCEPT ![ridx].name = name]
                /\ pc' = "get_playbook_logs"
    /\ UNCHANGED <<evars, bvars, avars, op, kw, session, headers, container, objs, args, playbooks_not_ran,
                   idx, playbook_running, pending_approvals, aidx, ridx, act,
                   nextRun, loops>>

\* get_playbook_logs for the run record at ridx; after the last record,
\* update_container_values merges the records into container.playbooks
GetPlaybookLogs ==
    /\ pc = "get_playbook_logs"
    /\ \E resp \in Responses :
        /\ Fetch("playbook_run/log", updated_playbooks[ridx].id, resp)
        /\ IF Raised(handle_request_error(resp))
           THEN pc' = "failed" /\ UNCHANGED <<updated_playbooks, ridx, container, objs>>
           ELSE \E logs \in LogSets :
                LET recs == [updated_playbooks EXCEPT ![ridx].logs = logs] IN
                /\ updated_playbooks' = recs
                /\ IF ridx < Len(recs)
                   THEN /\ ridx' = ridx + 1
                        /\ pc' = "get_action_runs"
                        /\ UNCHANGED <<container, objs>>
                   ELSE /\ ridx' = ridx
                        /\ pc' = "get_pins"
                        /\ container' = MergeRuns(container, objs, recs)[1]
                        /\ objs' = MergeRuns(container, objs, recs)[2]
    /\ UNCHANGED <<evars, bvars, avars, op, kw, session, headers, args, playbooks_not_ran, idx,
                   playbook_running, pending_approvals, aidx, act, nextRun, loops>>

\* get_pins: container.pins.extend(pins)
GetPins ==
    /\ pc = "get_pins"
    /\ \E resp \in Responses :
        /\ Fetch("container/pins", container.id, resp)
        /\ IF Raised(handle_request_error(resp))
           THEN pc' = "failed" /\ UNCHANGED container
           ELSE /\ pc' = "get_comments"
                /\ \E n \in 0..MaxItems :
                    container' = [container EXCEPT !.pins = @ \o Items(n)]
    /\ UNCHANGED <<evars, bvars, avars, op, kw, session, headers, objs, locals, act, nextRun, loops>>

\* get_comments: container.comments = [...]
GetComments ==
    /\ pc = "get_comments"
    /\ \E resp \in Responses :
        /\ Fetch("container/comments", container.id, resp)
        /\ IF Raised(handle_request_error(resp))
           THEN pc' = "failed" /\ UNCHANGED container
           ELSE /\ pc' = "get_notes"
                /\ \E n \in 0..MaxItems :
                    container' = [container EXCEPT !.comments = Items(n)]
    /\ UNCHANGED <<evars, bvars, avars, op, kw, session, headers, objs, locals, act, nextRun, loops>>

\* get_notes: container.notes = [...]
GetNotes ==
    /\ pc = "get_notes"
    /\ \E resp \in Responses :
        /\ Fetch("note", 0, resp)
        /\ IF Raised(handle_request_error(resp))
           THEN pc' = "failed" /\ UNCHANGED container
           ELSE /\ pc' = IF op = "run_playbooks" THEN "raise_exceptions"
                         ELSE "done"
                /\ \E n \in 0..MaxItems :
                    container' = [container EXCEPT !.notes = Items(n)]
    /\ UNCHANGED <<evars, bvars, avars, op, kw, session, headers, objs, locals, act, nextRun, loops>>

\* the closing loop of run_playbooks: raise PlaybookException for the first
\* attached playbook whose exception_occurred is true
RaiseExceptions ==
    /\ pc = "raise_exceptions"
    /\ IF FirstException(container, objs) # 0
       THEN /\ error' = PlaybookException(FirstException(container, objs))
            /\ pc' = "failed"
       ELSE /\ error' = NoError
            /\ pc' = "done"
    /\ UNCHANGED <<evars, bvars, avars, op, kw, session, headers, requests_log, wire, container, objs,
                   locals, act, nextRun, loops>>

-----------------------------------------------------------------------------
(* PhantomClient._handle_request, called directly *)

\* the method names a caller passes
Methods == {"GET", "POST", "DELETE", "DESTROY"}

\* a mutation of the method lookup: every name resolves
SessionMethodAny(m) == TRUE

\* getattr(self.session, method.lower()) finds a request function
SessionMethod(m) == m \in {"GET", "POST", "DELETE"}

\* _handle_request(method, url="container?"): the method lookup, then the
\* one request, raise_for_status and response.json()
HandleRequest ==
    /\ pc = "ready"
    /\ op' = "_handle_request"
    /\ \E m \in Methods :
        /\ req_method' = m
        /\ IF ~SessionMethod(m)
           THEN /\ error' = Exc("AttributeError")
                /\ pc' = "failed"
                /\ UNCHANGED <<requests_log, wire>>
           ELSE \E resp \in Responses :
                /\ Send(m, "container?", 0, resp)
                /\ error' = handle_request_error(resp)
                /\ pc' = IF Raised(handle_request_error(resp)) THEN "failed"
                         ELSE "done"
    /\ UNCHANGED <<evars, bvars, kw, session, headers, locals, act, world, arts,
                   targets, tidx, at_call, sent>>

-----------------------------------------------------------------------------
(* Artifact objects (objects.py, Artifact) and the containers that own them *)

\* Artifact(): 0 stands for None, <<>> for a missing name or label;
\* container_id is the attribute add_artifact and create_artifacts set
NoArtifact ==
    [name |-> <<>>, label |-> <<>>, id |-> 0, container |-> 0,
     container_id |-> 0]

\* the name/label combinations an object is given
NameLabels == {<<<<>>, <<>>>>, <<<<"n">>, <<>>>>, <<<<>>, <<"l">>>>}

\* an artifact as the caller holds it: never created; created by
\* create_artifacts (id 7 on container 1); fetched from the platform
ArtifactStates ==
    { [NoArtifact EXCEPT !.name = nl[1], !.label = nl[2], !.id = st[1],
                         !.container = st[2], !.container_id = st[3]] :
        nl \in NameLabels, st \in {<<0, 0, 0>>, <<7, 0, 1>>, <<7, 1, 0>>} }

\* the Artifact objects of the caller: object 1 in any state, object 2 a
\* named artifact never created
ArtifactHeaps ==
    { <<a, [NoArtifact EXCEPT !.name = <<"n">>]>> : a \in ArtifactStates }

\* Container(id=..., name=..., label=..., artifacts=[...])
OpContainers ==
    { [NoContainer EXCEPT !.id = i, !.name = nl[1], !.label = nl[2],
                          !.artifacts = a] :
        i \in {0, 1}, nl \in NameLabels, a \in {<<>>, <<1>>, <<2>>, <<1, 2>>} }

\* a mutation of the required-attributes test: a name alone is looked at
MissingNameOnly(o) == o.name = <<>>

\* not o.name and not o.label, for a Container or an Artifact
MissingNameAndLabel(o) == o.name = <<>> /\ o.label = <<>>

\* a mutation of the first guard of create_container: no identity check
AlreadyCreatedNever(c) == FALSE

\* if container.id
AlreadyCreated(c) == c.id # 0

\* the artifacts attached to a container, as objects
Attached(c, as) == [i \in 1..Len(c.artifacts) |-> as[c.artifacts[i]]]

\* Artifact(**row) for the i-th row of artifact? of container cid
FetchedArtifact(i, cid) ==
    [NoArtifact EXCEPT !.name = <<"n">>, !.id = 20 + i, !.container = cid]

\* the identity the platform assigns to a new container
NewContainerId == 9

\* create_container(container) up to the request: the three guards
CreateContainer ==
    /\ pc = "ready"
    /\ op' = "create_container"
    /\ \E c \in OpContainers, as \in ArtifactHeaps :
        /\ container' = c
        /\ arts' = as
        /\ at_call' = [container |-> c, arts |-> as]
        /\ IF AlreadyCreated(c)
           THEN error' = Exc("AttributeError") /\ pc' = "failed"
           ELSE IF MissingNameAndLabel(c)
           THEN error' = Exc("ObjectMissingAttributes") /\ pc' = "failed"
           ELSE IF \E i \in 1..Len(c.artifacts) :
                        MissingNameAndLabel(as[c.artifacts[i]])
           THEN error' = Exc("AttributeError") /\ pc' = "failed"
           ELSE error' = NoError /\ pc' = "create_container_post"
    /\ UNCHANGED <<evars, bvars, kw, session, headers, requests_log, wire, objs, locals,
                   act, nextRun, loops, req_method, targets, tidx, sent>>

\* the creation request: the container with its artifacts; container.id is
\* the identity returned
CreateContainerPost ==
    /\ pc = "create_container_post"
    /\ \E resp \in Responses :
        /\ Send("POST", "container?", 0, resp)
        /\ sent' = sent \o Attached(container, arts)
        /\ error' = handle_request_error(resp)
        /\ IF Raised(handle_request_error(resp))
           THEN pc' = "failed" /\ UNCHANGED container
           ELSE /\ pc' = "create_container_fetch"
                /\ container' = [container EXCEPT !.id = NewContainerId]
    /\ UNCHANGED <<evars, bvars, op, kw, session, headers, objs, locals, act, nextRun,
                   loops, req_method, arts, targets, tidx, at_call>>

\* container.update(self.get_containers(...)[0])
CreateContainerFetch ==
    /\ pc = "create_container_fetch"
    /\ \E resp \in Responses :
        /\ Fetch("container?", 0, resp)
        /\ IF Raised(handle_request_error(resp))
           THEN pc' = "failed" /\ UNCHANGED container
           ELSE pc' = "update_artifacts" /\ container' = ContainerUpdate(container)
    /\ UNCHANGED <<evars, bvars, op, kw, session, headers, objs, locals, act, nextRun,
                   loops, avars>>

\* update_artifacts(container): container.artifacts = get_artifacts(...)
UpdateArtifacts ==
    /\ pc = "update_artifacts"
    /\ \E resp \in Responses :
        /\ Fetch("artifact?", 0, resp)
        /\ IF Raised(handle_request_error(resp))
           THEN pc' = "failed" /\ UNCHANGED <<container, arts>>
           ELSE /\ pc' = "done"
                /\ \E n \in 0..MaxItems :
                    /\ arts' = arts \o [i \in 1..n |->
                                            FetchedArtifact(i, container.id)]
                    /\ container' = [container EXCEPT
                            !.artifacts = [i \in 1..n |-> Len(arts) + i]]
    /\ UNCHANGED <<evars, bvars, op, kw, session, headers, objs, locals, act, nextRun,
                   loops, req_method, targets, tidx, at_call, sent>>

-----------------------------------------------------------------------------
(* create_artifacts, delete_artifact, delete_container and the other calls *)
(* that need a container's identity                                        *)

\* an element of *args: an Artifact object, or a bare integer identifier
Obj(i) == [obj |-> i, int |-> 0]
Bare(n) == [obj |-> 0, int |-> n]

\* *args of create_artifacts
ArtifactArgs == {<<>>, <<Obj(1)>>, <<Obj(2)>>, <<Obj(1), Obj(2)>>}

\* *args of delete_artifact
DeleteArgs ==
    {<<Obj(1)>>, <<Bare(7)>>, <<Bare(0)>>, <<Obj(1), Obj(2)>>,
     <<Bare(7), Obj(1)>>}

\* containers without attached artifacts
BareContainers == {c \in OpContainers : c.artifacts = <<>>}

\* not artifact.id and not artifact.container
NotCreated(a) == a.id = 0 /\ a.container = 0

\* the identity the platform assigns to the i-th artifact created in a call
NewArtifactId(i) == 10 + i

\* create_artifacts(container, *args) up to the first request: the guard,
\* then the loop over container.artifacts, whose args.extend(artifact)
\* fails on the tuple args: AttributeError
CreateArtifacts ==
    /\ pc = "ready"
    /\ op' = "create_artifacts"
    /\ \E c \in OpContainers, as \in ArtifactHeaps, a \in ArtifactArgs :
        /\ container' = c
        /\ arts' = as
        /\ targets' = a
        /\ at_call' = [container |-> c, arts |-> as]
        /\ tidx' = 1
        /\ IF NotInitialized(c)
           THEN error' = Exc("ContainerNotInitialized") /\ pc' = "failed"
           ELSE IF \E i \in 1..Len(c.artifacts) : NotCreated(as[c.artifacts[i]])
           THEN error' = Exc("AttributeError") /\ pc' = "failed"
           ELSE /\ error' = NoError
                /\ pc' = IF a = <<>> THEN "update_artifacts"
                         ELSE "create_artifact_post"
    /\ UNCHANGED <<evars, bvars, kw, session, headers, requests_log, wire, objs, locals,
                   act, nextRun, loops, req_method, sent>>

\* one pass of `for artifact in args`: container_id is set, then the
\* creation request is sent, then the returned identity is stored
CreateArtifactPost ==
    /\ pc = "create_artifact_post"
    /\ LET a == targets[tidx].obj
           owned == [arts EXCEPT ![a].container_id = container.id] IN
       \E resp \in Responses :
        /\ Send("POST", "artifact?", 0, resp)
        /\ sent' = Append(sent, owned[a])
        /\ error' = handle_request_error(resp)
        /\ IF Raised(handle_request_error(resp))
           THEN /\ pc' = "failed"
                /\ arts' = owned
                /\ tidx' = tidx
           ELSE /\ arts' = [owned EXCEPT ![a].id = NewArtifactId(tidx)]
                /\ tidx' = tidx + 1
                /\ pc' = IF tidx < Len(targets) THEN "create_artifact_post"
                         ELSE "update_artifacts"
    /\ UNCHANGED <<evars, bvars, op, kw, session, headers, container, objs, locals, act,
                   nextRun, loops, req_method, targets, at_call>>

\* delete_artifact(*args), the call
DeleteArtifact ==
    /\ pc = "ready"
    /\ op' = "delete_artifact"
    /\ \E as \in ArtifactHeaps, a \in DeleteArgs :
        /\ arts' = as
        /\ targets' = a
        /\ at_call' = [container |-> container, arts |-> as]
    /\ tidx' = 1
    /\ error' = NoError
    /\ pc' = "delete_artifact"
    /\ UNCHANGED <<evars, bvars, kw, session, headers, requests_log, wire, container,
                   objs, locals, act, nextRun, loops, req_method, sent>>

\* not artifact_id
NoArtifactId(n) == n = 0

\* a mutation of delete_artifact: the identity alone is cleared
ClearedIdOnly(a) == [a EXCEPT !.id = 0]

\* artifact.id = None; artifact.container_id = None
Cleared(a) == [a EXCEPT !.id = 0, !.container_id = 0]

\* one pass of `for artifact in args` of delete_artifact
DeleteArtifactStep ==
    /\ pc = "delete_artifact"
    /\ LET a == targets[tidx].obj
           artifact_id == IF a # 0 THEN arts[a].id ELSE targets[tidx].int IN
       IF NoArtifactId(artifact_id)
       THEN /\ error' = Exc("ArtifactNotInitialized")
            /\ pc' = "failed"
            /\ UNCHANGED <<requests_log, wire, arts, tidx>>
       ELSE \E resp \in Responses :
            /\ Send("DELETE", "artifact", artifact_id, resp)
            /\ error' = handle_request_error(resp)
            /\ IF Raised(handle_request_error(resp))
               THEN /\ pc' = "failed"
                    /\ UNCHANGED <<arts, tidx>>
               ELSE /\ arts' = IF a # 0 THEN [arts EXCEPT ![a] = Cleared(@)]
                               ELSE arts
                    /\ tidx' = tidx + 1
                    /\ pc' = IF tidx < Len(targets) THEN "delete_artifact"
                             ELSE "done"
    /\ UNCHANGED <<evars, bvars, op, kw, session, headers, container, objs, locals, act,
                   nextRun, loops, req_method, targets, at_call, sent>>

\* delete_container(container): the request, with no test of container.id,
\* then container.id = None
DeleteContainer ==
    /\ pc = "ready"
    /\ op' = "delete_container"
    /\ \E c \in BareContainers, resp \in Responses :
        /\ at_call' = [container |-> c, arts |-> arts]
        /\ Send("DELETE", "container", c.id, resp)
        /\ error' = handle_request_error(resp)
        /\ IF Raised(handle_request_error(resp))
           THEN pc' = "failed" /\ container' = c
           ELSE pc' = "done" /\ container' = [c EXCEPT !.id = 0]
    /\ UNCHANGED <<evars, bvars, kw, session, headers, objs, locals, act, nextRun,
                   loops, req_method, arts, targets, tidx, sent>>

\* modify_container_values(container): the guard, then the update request
ModifyContainerValues ==
    /\ pc = "ready"
    /\ op' = "modify_container_values"
    /\ \E c \in BareContainers :
        /\ container' = c
        /\ at_call' = [container |-> c, arts |-> arts]
        /\ IF NotInitialized(c)
           THEN /\ error' = Exc("ContainerNotInitialized")
                /\ pc' = "failed"
                /\ UNCHANGED <<requests_log, wire>>
           ELSE \E resp \in Responses :
                /\ Send("POST", "container", c.id, resp)
                /\ error' = handle_request_error(resp)
                /\ pc' = IF Raised(handle_request_error(resp)) THEN "failed"
                         ELSE "done"
    /\ UNCHANGED <<evars, bvars, kw, session, headers, objs, locals, act, nextRun,
                   loops, req_method, arts, targets, tidx, sent>>

\* update_container_values(container), called directly: the guard; the
\* refresh then runs as it does at the end of run_playbooks
UpdateContainerValues ==
    /\ pc = "ready"
    /\ op' = "update_container_values"
    /\ \E c \in Containers, os \in PlaybookHeaps :
        /\ container' = c
        /\ objs' = os
        /\ at_call' = [container |-> c, arts |-> arts]
        /\ IF NotInitialized(c)
           THEN error' = Exc("ContainerNotInitialized") /\ pc' = "failed"
           ELSE error' = NoError /\ pc' = "get_containers"
    /\ UNCHANGED <<evars, bvars, kw, session, headers, requests_log, wire, locals, act,
                   nextRun, loops, req_method, arts, targets, tidx, sent>>

-----------------------------------------------------------------------------
(* The catalog cache: _init_action_builder, get_apps, get_actions,         *)
(* get_assets                                                              *)

\* calls of get_apps / get_actions / get_assets made on one client
MaxCalls == 3

\* the key each call reads from the catalog
CatalogKey(call) ==
    CASE call = "get_apps" -> "apps"
      [] call = "get_actions" -> "actions"
      [] call = "get_assets" -> "assets"

CatalogCalls == {"get_apps", "get_actions", "get_assets"}

\* a catalog maps the keys it has to the number of entries under each; the
\* catalog without keys stands for {} and for the [] of __init__
EmptyCatalog == [k \in {} |-> 0]

\* what the platform answers to GET build_action
Catalogs ==
    { EmptyCatalog,
      [k \in {"apps", "actions", "assets"} |-> 0],
      [k \in {"apps", "actions", "assets"} |-> 1] }

\* bool(self.action_builder)
CatalogCached(ab) == DOMAIN ab # {}

\* the loop `for x in self.action_builder.get(key)`: the entities built, or
\* TypeError when the catalog has no such key
Listing(call, ab) ==
    IF CatalogKey(call) \in DOMAIN ab
    THEN error' = NoError /\ listed' = Items(ab[CatalogKey(call)])
    ELSE error' = Exc("TypeError") /\ listed' = 0

\* one call of get_apps, get_actions or get_assets, to its return
GetCatalog ==
    /\ pc = "ready"
    /\ calls < MaxCalls
    /\ calls' = calls + 1
    /\ pc' = "ready"
    /\ \E call \in CatalogCalls :
        /\ op' = call
        /\ IF CatalogCached(action_builder)
           THEN /\ Listing(call, action_builder)
                /\ UNCHANGED <<requests_log, wire, action_builder>>
           ELSE \E resp \in Responses :
                /\ Send("GET", "build_action", 0, resp)
                /\ IF Raised(handle_request_error(resp))
                   THEN /\ error' = handle_request_error(resp)
                        /\ listed' = 0
                        /\ UNCHANGED action_builder
                   ELSE \E ab \in Catalogs :
                        /\ action_builder' = ab
                        /\ Listing(call, ab)
    /\ UNCHANGED <<evars, avars, kw, session, headers, locals, act, world, first>>

-----------------------------------------------------------------------------
(* update_container_values, called again on the same container *)

\* further calls of update_container_values on one container
MaxRepeats == 1

\* update_container_values(container) once more, on the container as the
\* previous call left it: the guard, then the same refresh
UpdateContainerValuesAgain ==
    /\ pc = "done"
    /\ op = "update_container_values"
    /\ calls < MaxRepeats
    /\ calls' = calls + 1
    /\ first' = [container |-> container, objs |-> objs,
                 updated_playbooks |-> updated_playbooks,
                 pins_before |-> Len(first.container.pins)]
    /\ IF NotInitialized(container)
       THEN error' = Exc("ContainerNotInitialized") /\ pc' = "failed"
       ELSE error' = NoError /\ pc' = "get_containers"
    /\ UNCHANGED <<evars, avars, op, kw, session, headers, requests_log, wire,
                   locals, act, world, action_builder, listed>>

-----------------------------------------------------------------------------
(* The specifications *)

ClientNext ==
    \/ Construct
    \/ PasswordAuthenticate
    \/ TokenAuthenticate
    \/ TestAuthorization
    \/ RunPlaybooks
    \/ StartRun
    \/ IsPlaybookRunning
    \/ CheckApprovals
    \/ AnswerApprovals
    \/ GetContainers
    \/ GetArtifacts
    \/ GetPlaybookRuns
    \/ GetActionRuns
    \/ GetAppRuns
    \/ GetPlaybookNameFromId
    \/ GetPlaybookLogs
    \/ GetPins
    \/ GetComments
    \/ GetNotes
    \/ RaiseExceptions
    \/ HandleRequest
    \/ CreateContainer
    \/ CreateContainerPost
    \/ CreateContainerFetch
    \/ UpdateArtifacts
    \/ CreateArtifacts
    \/ CreateArtifactPost
    \/ DeleteArtifact
    \/ DeleteArtifactStep
    \/ DeleteContainer
    \/ ModifyContainerValues
    \/ UpdateContainerValues

\* the entity variables while the client is exercised
EntityIdle ==
    /\ held = NewEntity
    /\ incoming = NewEntity
    /\ kwargs = NoKwargs
    /\ before = NewEntity
    /\ data = NoKwargs
    /\ estep = "built"
    /\ mode = "none"

Init == ClientInit /\ EntityIdle

\* construction and the calls other than run_playbooks
OpsNext ==
    \/ Construct
    \/ PasswordAuthenticate
    \/ TokenAuthenticate
    \/ TestAuthorization
    \/ HandleRequest
    \/ CreateContainer
    \/ CreateContainerPost
    \/ CreateContainerFetch
    \/ UpdateArtifacts
    \/ CreateArtifacts
    \/ CreateArtifactPost
    \/ DeleteArtifact
    \/ DeleteArtifactStep
    \/ DeleteContainer
    \/ ModifyContainerValues

OpsSpec == Init /\ [][OpsNext]_vars

\* construction and the catalog calls, repeated on one client
CatalogNext ==
    \/ Construct
    \/ PasswordAuthenticate
    \/ TokenAuthenticate
    \/ TestAuthorization
    \/ GetCatalog

CatalogSpec == Init /\ [][CatalogNext]_vars

\* the client PhantomClient(url, session=s) returns: the state Construct and
\* TestAuthorization lead to when the version request is answered 200
Connected ==
    /\ EntityIdle
    /\ op = "__init__"
    /\ pc = "ready"
    /\ kw = [NoKw EXCEPT !.session = TRUE]
    /\ session = "given"
    /\ headers = {}
    /\ requests_log = <<>>
    /\ wire = <<Entry("GET", "version", 0, [status |-> 200, json |-> TRUE])>>
    /\ error = NoError
    /\ container = NoContainer
    /\ objs = <<>>
    /\ args = <<>>
    /\ playbooks_not_ran = <<>>
    /\ idx = 0
    /\ playbook_running = FALSE
    /\ pending_approvals = <<>>
    /\ aidx = 0
    /\ updated_playbooks = <<>>
    /\ ridx = 0
    /\ act = 0
    /\ nextRun = 2
    /\ loops = <<>>
    /\ req_method = "none"
    /\ arts = <<>>
    /\ targets = <<>>
    /\ tidx = 0
    /\ at_call = [container |-> NoContainer, arts |-> <<>>]
    /\ sent = <<>>
    /\ action_builder = <<>>
    /\ listed = 0
    /\ calls = 0
    /\ first = [container |-> NoContainer, objs |-> <<>>,
               updated_playbooks |-> <<>>, pins_before |-> 0]

\* update_container_values on a connected client, repeated on one container
RefreshNext ==
    \/ UpdateContainerValues
    \/ GetContainers
    \/ GetArtifacts
    \/ GetPlaybookRuns
    \/ GetActionRuns
    \/ GetAppRuns
    \/ GetPlaybookNameFromId
    \/ GetPlaybookLogs
    \/ GetPins
    \/ GetComments
    \/ GetNotes
    \/ UpdateContainerValuesAgain

RefreshSpec == Connected /\ [][RefreshNext]_vars

\* run_playbooks on a connected client
PollNext ==
    \/ RunPlaybooks
    \/ StartRun
    \/ IsPlaybookRunning
    \/ CheckApprovals
    \/ AnswerApprovals
    \/ GetContainers
    \/ GetArtifacts
    \/ GetPlaybookRuns
    \/ GetActionRuns
    \/ GetAppRuns
    \/ GetPlaybookNameFromId
    \/ GetPlaybookLogs
    \/ GetPins
    \/ GetComments
    \/ GetNotes
    \/ RaiseExceptions

\* run_playbooks is one thread of control: a call that can take a step
\* takes it. The platform is taken to report a run as running at most
\* MaxPolls times in a call (the guard of IsPlaybookRunning).
LiveSpec == Connected /\ [][PollNext]_vars /\ WF_vars(PollNext)

Next == ClientNext

Spec == Init /\ [][Next]_vars

EntityNext == Update \/ UpdateKw \/ ToDict

EntityStart == EntityInit /\ ClientInit

EntitySpec == EntityStart /\ [][EntityNext]_vars

-----------------------------------------------------------------------------
(* C1: after held.update(incoming) every field whose incoming value is     *)
(* empty (None, "", [], {}, False, 0) keeps the value held had before,     *)
(* every field whose incoming value is non-empty takes the incoming value, *)
(* and the held entity has no other change (same set of fields).           *)
C1_UpdateFrame ==
    (estep = "merged" /\ mode = "object") =>
        /\ DOMAIN held = DOMAIN before
        /\ \A f \in Fields :
            /\ ~Truthy(incoming[f]) => held[f] = before[f]
            /\ Truthy(incoming[f]) => held[f] = incoming[f]

\* a merge that both keeps a populated field against an empty incoming one
\* and replaces a populated field by a different populated incoming one
C1_Witness ==
    /\ estep = "merged" /\ mode = "object"
    /\ \E f \in Fields :
        Truthy(before[f]) /\ ~Truthy(incoming[f]) /\ held[f] = before[f]
    /\ \E f \in Fields :
        Truthy(before[f]) /\ Truthy(incoming[f]) /\ incoming[f] # before[f]
            /\ held[f] = incoming[f]

(* C2 as stated: the serialised form contains a field if and only if its   *)
(* value is non-empty, non-null and not the field's default; empty, null   *)
(* and still-at-default fields are omitted.  (toDict tests truthiness      *)
(* only, so a non-empty default such as sensitivity "red" is emitted.)     *)
C2_OmitsDefaults ==
    estep = "dumped" =>
        \A f \in Fields :
            f \in DOMAIN data <=> (Truthy(held[f]) /\ held[f] # Default(f))

(* C3: the serialisation of a after a.update(b) never contains a field     *)
(* that is empty in both a and b, and for every field non-empty in b the   *)
(* serialised value is b's value.                                          *)
C3_SerializeMerge ==
    (estep = "dumped" /\ mode = "object") =>
        \A f \in Fields :
            /\ (~Truthy(before[f]) /\ ~Truthy(incoming[f])) => f \notin DOMAIN data
            /\ Truthy(incoming[f]) => (f \in DOMAIN data /\ data[f] = incoming[f])

\* a serialised merge with a field empty on both sides and a field where
\* b's non-empty value replaced a's different non-empty value
C3_Witness ==
    /\ estep = "dumped" /\ mode = "object"
    /\ \E f \in Fields :
        ~Truthy(before[f]) /\ ~Truthy(incoming[f]) /\ f \notin DOMAIN data
    /\ \E f \in Fields :
        Truthy(before[f]) /\ Truthy(incoming[f]) /\ before[f] # incoming[f]
            /\ data[f] = incoming[f]

-----------------------------------------------------------------------------
(* Vocabulary of the claims about run_playbooks and the transport *)

Last(s) == s[Len(s)]

\* the requests of one kind sent so far
Sent(method, url) == SelectSeq(wire, LAMBDA e : e.method = method /\ e.url = url)

\* a poll loop in which no approval was ever pending
NoPending(l) == \A j \in 1..Len(l.pendings) : l.pendings[j] = 0

\* the playbooks the caller handed to run_playbooks: attached or passed
Handed ==
    ({container.playbooks[i] : i \in 1..Len(container.playbooks)} \cap (1..2))
        \cup {args[i] : i \in 1..Len(args)}

(* C4 as stated: run_playbooks starts a playbook (attached or passed as an *)
(* argument) if and only if it carries no run identifier yet; each such    *)
(* playbook gets exactly one start request in the call, and its run        *)
(* identifier is the one that request returned.                            *)
C4_StartIffNoRunId ==
    op = "run_playbooks" =>
        /\ \A i \in 1..Len(loops) : loops[i].had = 0
        /\ \A i, j \in 1..Len(loops) :
            loops[i].playbook = loops[j].playbook => i = j
        /\ \A i \in 1..Len(loops) :
            objs[loops[i].playbook].run_id = loops[i].returned
        /\ pc = "done" => \A p \in Handed : objs[p].run_id # 0

(* C5: run_playbooks on a container with no identity, or with no playbook  *)
(* on the container and none passed, fails with its precondition error     *)
(* (ContainerNotInitialized, AttributeError) before any request: nothing   *)
(* is sent besides the request construction made, and no run identifier    *)
(* changes.                                                                *)
C5_PreconditionsFirst ==
    (op = "run_playbooks"
        /\ (container.id = 0 \/ (container.playbooks = <<>> /\ args = <<>>))) =>
        /\ pc = "failed"
        /\ error.type = IF container.id = 0 THEN "ContainerNotInitialized"
                        ELSE "AttributeError"
        /\ Len(wire) = 1 /\ wire[1].url = "version"
        /\ requests_log = <<>>
        /\ loops = <<>>
        /\ objs \in PlaybookHeaps
        /\ nextRun = 2

\* the call failed on a container without identity whose attached playbook
\* carries no run identifier, so that only the guard kept it from starting
C5_Witness ==
    /\ op = "run_playbooks" /\ pc = "failed"
    /\ error.type = "ContainerNotInitialized"
    /\ container.playbooks # <<>>
    /\ objs[container.playbooks[1]].run_id = 0

(* C6: for a started run with no approval ever pending, the poll loop      *)
(* queries the status once more after every "running" answer and never     *)
(* after a "not running" answer (k running answers, then one not running:  *)
(* exactly k+1 queries), submits no approval response, and the call, when  *)
(* the remote answers every request and no playbook logged an exception,   *)
(* returns without error.                                                  *)
C6_PollCount ==
    op = "run_playbooks" =>
        /\ \A i \in 1..Len(loops) :
            NoPending(loops[i]) =>
                /\ \A j \in 1..Len(loops[i].status) :
                    loops[i].status[j] = 0 => j = Len(loops[i].status)
                /\ loops[i].exited =>
                    (loops[i].status # <<>> /\ Last(loops[i].status) = 0)
                /\ (loops[i].status # <<>> /\ Last(loops[i].status) = 0
                        /\ Len(loops[i].pendings) = Len(loops[i].status)) =>
                    loops[i].exited
                /\ loops[i].answered = <<>>
        /\ (/\ pc \in {"done", "failed"}
            /\ Len(loops) = 1
            /\ NoPending(loops[1])
            /\ \A i \in 1..Len(wire) : wire[i].status = 200
            /\ \A i \in 1..Len(container.playbooks) :
                \A j \in 1..Len(objs[container.playbooks[i]].logs) :
                    objs[container.playbooks[i]].logs[j] # 0) =>
            /\ pc = "done"
            /\ error = NoError
            /\ Len(Sent("GET", "playbook_run")) = Len(loops[1].status)
            /\ Sent("POST", "approval") = <<>>

\* the spec's case: running, running, not running; three status queries
C6_Witness ==
    /\ op = "run_playbooks" /\ pc = "done" /\ error = NoError
    /\ Len(loops) = 1
    /\ loops[1].status = <<1, 1, 0>>
    /\ loops[1].pendings = <<0, 0, 0>>
    /\ Len(Sent("GET", "playbook_run")) = 3
    /\ Sent("POST", "approval") = <<>>

(* C7: a pending approval whose name is absent from the playbook's prompt  *)
(* mapping is never answered: approval resolution raises                   *)
(* MissingApprovalResponse instead, which ends run_playbooks at once (no   *)
(* further polling); when the list holds that one approval, nothing is     *)
(* sent after the request that fetched the list.                           *)
C7_MissingApproval ==
    op = "run_playbooks" =>
        /\ \A i \in 1..Len(loops) : \A j \in 1..Len(loops[i].answered) :
            loops[i].answered[j].name \in DOMAIN objs[loops[i].playbook].prompts
        /\ (/\ loops # <<>>
            /\ ~Last(loops).exited
            /\ Last(loops).pendings # <<>>
            /\ Last(Last(loops).pendings) > 0
            /\ pc # "answer_approvals"
            /\ pending_approvals[aidx].name
                    \notin DOMAIN objs[Last(loops).playbook].prompts) =>
            error.type = "MissingApprovalResponse"
        /\ error.type = "MissingApprovalResponse" =>
            /\ pc = "failed"
            /\ ~Last(loops).exited
            /\ Len(Last(loops).pendings) = Len(Last(loops).status)
            /\ Sent("GET", "container?") = <<>>
            /\ aidx = 1 =>
                (Last(wire).method = "GET" /\ Last(wire).url = "approval")

\* one pending approval, its name not in the prompt mapping, the call failed
C7_Witness ==
    /\ op = "run_playbooks" /\ pc = "failed"
    /\ error.type = "MissingApprovalResponse"
    /\ Len(pending_approvals) = 1
    /\ Last(wire).url = "approval" /\ Last(wire).method = "GET"
    /\ Sent("POST", "approval") = <<>>

(* C8: in run_playbooks the refresh starts only after every playbook of    *)
(* the call has been started and seen not running; the exception check     *)
(* comes only after the refresh has completed; and the call then raises    *)
(* PlaybookException if and only if some playbook attached to the          *)
(* container, started in this call or not, has an exception log entry      *)
(* (message_type 0), returning normally otherwise.                         *)
C8_RefreshThenRaise ==
    op = "run_playbooks" =>
        /\ Sent("GET", "container?") # <<>> =>
            /\ Len(loops) = Len(playbooks_not_ran)
            /\ \A i \in 1..Len(loops) :
                loops[i].exited /\ Last(loops[i].status) = 0
        /\ (pc \in {"raise_exceptions", "done"}
                \/ error.type = "PlaybookException") =>
            (Last(wire).url = "note" /\ Last(wire).status = 200)
        /\ (pc \in {"done", "failed"} /\ Last(wire).url = "note"
                /\ Last(wire).status = 200) =>
            /\ error.type \in {"none", "PlaybookException"}
            /\ pc = "done" <=> error.type = "none"
            /\ error.type = "PlaybookException" <=>
                \E i \in 1..Len(container.playbooks) :
                    \E j \in 1..Len(objs[container.playbooks[i]].logs) :
                        objs[container.playbooks[i]].logs[j] = 0

\* the call started a run, refreshed, and raised for an attached playbook
\* it had not started itself
C8_Witness ==
    /\ op = "run_playbooks" /\ pc = "failed"
    /\ error.type = "PlaybookException"
    /\ Len(loops) = 1 /\ loops[1].exited
    /\ error.playbook # loops[1].playbook
    /\ objs[error.playbook].run_id = 1

(* C9 as stated: every transport call whose response has a non-success     *)
(* status raises ServerException carrying that status code (for 400 with   *)
(* the full request/response text in its message).                         *)
C9_NonSuccessRaises ==
    (requests_log # <<>> /\ Last(wire) = Last(requests_log)
        /\ Last(requests_log).status >= 400) =>
        /\ error.type = "ServerException"
        /\ error.error_code = Last(requests_log).status
        /\ Last(requests_log).status = 400 => error.dump

(* C10 as stated: every HTTP request the client sends, the authentication  *)
(* and validation requests included, adds exactly one entry to             *)
(* requests_log, in order.                                                 *)
C10_EveryRequestLogged == requests_log = wire

\* no request has left the client since its construction was validated
NoRequestSinceReady ==
    /\ Len(wire) = 1
    /\ wire[1].url = "version"
    /\ requests_log = <<>>

C14_NoNamelessArtifactSent ==
    \A i \in 1..Len(sent) : sent[i].name # <<>> \/ sent[i].label # <<>>

\* __init__ has run its argument checks
Constructing == op # "__init__" \/ pc # "new"

(* C15: a client built with a username alone or a password alone fails     *)
(* with AuthenticationError; one built with no token, no pair and no       *)
(* session fails with ConnectionError; neither sends a request first.      *)
C15_IncompleteArguments ==
    Constructing =>
        /\ (kw.username /\ ~kw.password) \/ (~kw.username /\ kw.password) =>
                /\ pc = "failed"
                /\ error.type = "AuthenticationError"
                /\ wire = <<>>
        /\ (~kw.token /\ ~kw.username /\ ~kw.password /\ ~kw.session) =>
                /\ pc = "failed"
                /\ error.type = "ConnectionError"
                /\ wire = <<>>

\* a client was built with a password and nothing else, and was refused
C15_Witness ==
    /\ op = "__init__"
    /\ pc = "failed"
    /\ kw.password
    /\ ~kw.username
    /\ error.type = "AuthenticationError"

(* C16 as stated: a client built with more than one of token, credential   *)
(* pair and prepared session is rejected before any request, so a client   *)
(* that was built names exactly one of them.                               *)
C16_OneStrategy ==
    /\ (Constructing /\ Cardinality(Strategies(kw)) > 1) =>
            /\ pc = "failed"
            /\ wire = <<>>
    /\ pc = "ready" => Cardinality(Strategies(kw)) = 1

(* C17: a client that was built has sent the version request and received  *)
(* status 200; a version request answered with any other status ends the   *)
(* construction with AuthenticationError, never ServerException.           *)
C17_ValidatedConstruction ==
    /\ (op # "__init__" \/ pc = "ready") =>
            /\ wire # <<>>
            /\ wire[1].method = "GET"
            /\ wire[1].url = "version"
            /\ wire[1].status = 200
    /\ (op = "__init__" /\ wire # <<>> /\ Last(wire).url = "version"
            /\ Last(wire).status # 200) =>
            /\ pc = "failed"
            /\ error.type = "AuthenticationError"
            /\ error.type # "ServerException"

\* the version request of a construction with a session was answered 500
C17_Witness ==
    /\ op = "__init__"
    /\ kw.session
    /\ wire # <<>>
    /\ Last(wire).url = "version"
    /\ Last(wire).status = 500
    /\ pc = "failed"

\* the artifact objects delete_artifact has deleted so far in this call
DeletedObjects == {targets[j].obj : j \in 1..(tidx - 1)} \ {0}

(* C18: once delete_artifact has deleted an Artifact object, the object's  *)
(* id and its container_id (the reference add_artifact and                 *)
(* create_artifacts set) are None; deleting a bare integer sends the same  *)
(* DELETE artifact/<id> request and changes no object; an artifact whose   *)
(* delete request failed keeps its id and container_id. The attribute      *)
(* `container` of an artifact read from the platform is not touched.       *)
C18_DeleteClears ==
    op = "delete_artifact" =>
        /\ \A a \in DeletedObjects :
            /\ arts[a].id = 0
            /\ arts[a].container_id = 0
            /\ arts[a].container = at_call.arts[a].container
        /\ \A a \in (1..Len(arts)) \ DeletedObjects : arts[a] = at_call.arts[a]
        /\ \A j \in 1..(tidx - 1) :
            /\ Len(wire) > j
            /\ wire[j + 1].method = "DELETE"
            /\ wire[j + 1].url = "artifact"
            /\ wire[j + 1].status = 200
            /\ wire[j + 1].id = IF targets[j].obj # 0
                                THEN at_call.arts[targets[j].obj].id
                                ELSE targets[j].int

\* a bare identifier was deleted, then the request for an artifact object
\* that names its container failed
C18_WitnessFailed ==
    /\ op = "delete_artifact"
    /\ pc = "failed"
    /\ Len(targets) = 2
    /\ tidx = 2
    /\ targets[1].int = 7
    /\ targets[2].obj = 1
    /\ error.type = "ServerException"
    /\ arts[1].container_id = 1

\* an artifact object that named its container was deleted
C18_Witness ==
    /\ op = "delete_artifact"
    /\ pc = "done"
    /\ targets[1].obj = 1
    /\ at_call.arts[1].container_id = 1
    /\ arts[1].id = 0

\* the identifier delete_artifact reads for its current argument
CurrentArtifactId ==
    IF targets[tidx].obj # 0 THEN arts[targets[tidx].obj].id
    ELSE targets[tidx].int

(* C19 as stated: a call that needs a container's id (create_artifacts,    *)
(* update_container_values, modify_container_values, delete_container)     *)
(* on a container without one fails with ContainerNotInitialized before    *)
(* any request, and delete_artifact on an artifact without an id fails     *)
(* with ArtifactNotInitialized before the request for it.                  *)
C19_IdentityRequired ==
    /\ (op \in {"create_artifacts", "update_container_values",
                "modify_container_values", "delete_container"}
            /\ at_call.container.id = 0) =>
            /\ pc = "failed"
            /\ error.type = "ContainerNotInitialized"
            /\ NoRequestSinceReady
    /\ (op = "delete_artifact" /\ pc = "failed" /\ tidx <= Len(targets)
            /\ CurrentArtifactId = 0) =>
            /\ error.type = "ArtifactNotInitialized"
            /\ Len(wire) = tidx

(* C20: no failed request is retried. A step of a call sends at most one   *)
(* request; a request answered with a status of 400 or more ends the call  *)
(* with an exception raised to the caller, and no request follows it: the  *)
(* same one is not sent again and the call does not go on to later ones,   *)
(* a status or approval query inside the poll loop included.               *)
C20_NoRetry ==
    [][ /\ Len(wire') <= Len(wire) + 1
        /\ (wire' # wire /\ Last(wire').status >= 400) =>
                /\ pc' = "failed"
                /\ error'.type # "none"
        /\ (wire # <<>> /\ Last(wire).status >= 400) => wire' = wire ]_vars

\* the approval query of the second pass of a poll loop was answered 500
C20_Witness ==
    /\ op = "run_playbooks"
    /\ pc = "failed"
    /\ Last(wire).url = "approval"
    /\ Last(wire).status = 500
    /\ Len(Sent("GET", "approval")) = 2
    /\ error.type = "ServerException"

\* the artifacts a create_artifacts call is to create: those passed and
\* those attached to the container that were never created
ToCreate ==
    {targets[j].obj : j \in 1..Len(targets)}
        \cup {a \in {at_call.container.artifacts[i] :
                        i \in 1..Len(at_call.container.artifacts)} :
                at_call.arts[a].id = 0 /\ at_call.arts[a].container = 0}

(* C22 as stated: create_artifacts on a container with an id creates every *)
(* artifact passed and every attached artifact not created before, with    *)
(* one creation request each; when it returns each of them carries an id   *)
(* and a container_id equal to the container's id. The call fails only     *)
(* when a request fails.                                                   *)
C22_CreatesAll ==
    (op = "create_artifacts" /\ at_call.container.id # 0) =>
        /\ pc = "failed" => error.type \in {"ServerException", "JSONDecodeError"}
        /\ pc = "done" =>
            /\ Len(Sent("POST", "artifact?")) = Cardinality(ToCreate)
            /\ \A a \in ToCreate :
                /\ arts[a].id # 0
                /\ arts[a].container_id = at_call.container.id

(* C23 as stated: construction with a token alone installs the token       *)
(* header, then sends the validation request; when that is answered 200    *)
(* the construction completes and the client holds a usable session that   *)
(* carries the token header.                                               *)
C23_TokenStrategy ==
    (Constructing /\ kw.token /\ ~kw.session /\ ~kw.username /\ ~kw.password
        /\ pc # "token_authenticate") =>
        /\ "ph-auth-token" \in headers
        /\ wire # <<>>
        /\ wire[1].url = "version"
        /\ wire[1].status = 200 =>
            /\ pc # "failed"
            /\ session = "fresh"

(* C24 as stated: construction with a username and a password sends the    *)
(* login request, then harvests the anti-forgery cookie into the headers,  *)
(* then sends the validation request; when login and validation succeed    *)
(* the construction completes with a usable session.                       *)
C24_CredentialStrategy ==
    (Constructing /\ kw.username /\ kw.password /\ ~kw.token /\ ~kw.session
        /\ pc # "password_authenticate") =>
        /\ wire # <<>>
        /\ wire[1].url = "login"
        /\ wire[1].status = 200 =>
            /\ Len(wire) = 2
            /\ wire[2].url = "version"
            /\ wire[2].status = 200 => pc # "failed"

(* C30 as stated: when create_container raises, for a failed guard, a      *)
(* server error on the creation request or a failure of the fetch of the   *)
(* created container or of its artifacts, the container still has no id;   *)
(* it has one only when the call returned normally.                        *)
C30_AtomicIdentity ==
    (op = "create_container" /\ at_call.container.id = 0 /\ pc = "failed") =>
        container.id = 0

\* run_playbooks has refreshed the container: it returned, or raised for a
\* playbook exception found after the refresh
Refreshed ==
    /\ op = "run_playbooks"
    /\ pc = "done" \/ error.type = "PlaybookException"

(* C27 as stated: after a run_playbooks call has completed and refreshed   *)
(* the container, every playbook in container.playbooks, declared or       *)
(* appended by the refresh, carries a run identifier, so that a later call *)
(* finds none of them to start.                                            *)
C27_AllCarryRunId ==
    Refreshed =>
        \A i \in 1..Len(container.playbooks) :
            objs[container.playbooks[i]].run_id # 0

\* the positions in wire of the start requests
Starts == {k \in 1..Len(wire) :
                wire[k].method = "POST" /\ wire[k].url = "playbook_run"}

(* C26: run_playbooks starts its playbooks strictly one after another.     *)
(* When it sends a start request, the poll loop of every run it started    *)
(* before has ended on a status query that reported no running run; so at  *)
(* most one started run is still being polled, and between two start       *)
(* requests there is always an answered status query.                      *)
C26_OneRunAtATime ==
    op = "run_playbooks" =>
        /\ \A i \in 1..(Len(loops) - 1) :
            /\ loops[i].exited
            /\ loops[i].status # <<>>
            /\ Last(loops[i].status) = 0
        /\ \A i \in 1..Len(loops) :
            loops[i].exited => Last(loops[i].status) = 0
        /\ Cardinality(Starts) \in {Len(loops), Len(loops) + 1}
        /\ \A k \in Starts : \A l \in Starts :
            k < l =>
                \E m \in (k + 1)..(l - 1) :
                    /\ wire[m].method = "GET"
                    /\ wire[m].url = "playbook_run"
                    /\ wire[m].status = 200

\* a second playbook was started after the first was seen running, then
\* not running
C26_Witness ==
    /\ op = "run_playbooks"
    /\ Len(loops) = 2
    /\ loops[1].status = <<1, 0>>
    /\ Cardinality(Starts) = 2

(* C28: answer_approvals takes the pending approvals in the order received *)
(* and is not all-or-nothing. For an approval whose name is in the         *)
(* playbook's prompt mapping it submits one response carrying the          *)
(* responses configured under that name, then goes on to the next one; at  *)
(* the first approval whose name is missing it raises                      *)
(* MissingApprovalResponse and submits nothing for that approval or a      *)
(* later one, the earlier submissions staying made. The prompt mapping is  *)
(* never changed.                                                          *)
C28_PartialAnswers ==
    [][ pc = "answer_approvals" =>
            /\ objs' = objs
            /\ pending_approvals' = pending_approvals
            /\ SubSeq(wire', 1, Len(wire)) = wire
            /\ IF pending_approvals[aidx].name
                    \notin DOMAIN objs[playbooks_not_ran[idx]].prompts
               THEN /\ pc' = "failed"
                    /\ error'.type = "MissingApprovalResponse"
                    /\ wire' = wire
                    /\ loops' = loops
               ELSE /\ Len(wire') = Len(wire) + 1
                    /\ Last(wire').method = "POST"
                    /\ Last(wire').url = "approval"
                    /\ Last(wire').id = pending_approvals[aidx].id
                    /\ Last(wire').status = 200 =>
                        /\ Last(Last(loops').answered) =
                            [id |-> pending_approvals[aidx].id,
                             name |-> pending_approvals[aidx].name,
                             responses |-> objs[playbooks_not_ran[idx]]
                                    .prompts[pending_approvals[aidx].name]]
                        /\ aidx < Len(pending_approvals) =>
                            /\ pc' = "answer_approvals"
                            /\ aidx' = aidx + 1 ]_vars

\* of two pending approvals the first was answered, the second had no
\* configured response
C28_Witness ==
    /\ op = "run_playbooks"
    /\ pc = "failed"
    /\ error.type = "MissingApprovalResponse"
    /\ Len(pending_approvals) = 2
    /\ aidx = 2
    /\ Last(wire).method = "POST"
    /\ Last(wire).url = "approval"
    /\ Last(wire).id = pending_approvals[1].id
    /\ Len(Last(loops).answered) = 1

\* the catalog requests that were answered with success
CatalogFetches ==
    SelectSeq(wire, LAMBDA e : e.url = "build_action" /\ e.status = 200)

(* C21 as stated: over the lifetime of one client the catalog is fetched   *)
(* at most once, whatever content the platform returned: after a fetch     *)
(* that succeeded, no call of get_apps, get_actions or get_assets sends a  *)
(* request.                                                                *)
C21_FetchedOnce == Len(CatalogFetches) <= 1

\* the call of update_container_values that has just returned was given by
\* the platform what the call before it was given
SameRemote ==
    /\ updated_playbooks = first.updated_playbooks
    /\ container.artifacts = first.container.artifacts
    /\ container.comments = first.container.comments
    /\ container.notes = first.container.notes
    /\ Len(container.pins) - Len(first.container.pins)
            = Len(first.container.pins) - first.pins_before

(* C29 as stated: update_container_values called twice in a row against   *)
(* an unchanged platform leaves the container, with its artifacts,         *)
(* playbooks, pins, comments and notes, as one call left it; no            *)
(* sub-collection gains a duplicate.                                       *)
C29_RefreshIdempotent ==
    (op = "update_container_values" /\ pc = "done" /\ calls > 0
        /\ SameRemote) =>
        /\ container = first.container
        /\ objs = first.objs

\* run_playbooks is inside `while playbook_running`
InLoop == pc \in {"is_playbook_running", "check_approvals", "answer_approvals"}

(* C25 as stated: the poll loop of a started run is left in two ways only, *)
(* by a status query that reports no running run or by a failure of        *)
(* approval resolution (the approval query, a missing response, the        *)
(* submission of a response).                                              *)
C25_TwoExits ==
    [][ (InLoop /\ ~InLoop') =>
            \/ /\ pc' # "failed"
               /\ Last(loops').exited
               /\ Last(Last(loops').status) = 0
            \/ /\ pc' = "failed"
               /\ pc \in {"check_approvals", "answer_approvals"} ]_vars

(* C25, amended: the poll loop is left by a status query that reports no   *)
(* running run, or by an exception: a failed status query, a failed        *)
(* approval query or submission, a missing approval response. No count of  *)
(* passes or wait ends it: while the platform reports a run as running and *)
(* nothing raises, the call stays in the loop. If the platform eventually  *)
(* reports not running, the call eventually leaves the loop.               *)
C25_LoopExits ==
    /\ [][ (InLoop /\ ~InLoop') =>
            \/ /\ pc' # "failed"
               /\ Last(loops').exited
               /\ Last(Last(loops').status) = 0
            \/ /\ pc' = "failed"
               /\ error'.type \in {"ServerException", "JSONDecodeError",
                                   "MissingApprovalResponse"} ]_vars
    /\ InLoop ~> ~InLoop

\* a loop was left after the run was reported running, then not running,
\* and a pending approval was answered on the way
C25_Witness ==
    /\ op = "run_playbooks"
    /\ ~InLoop
    /\ Len(loops) = 1
    /\ loops[1].exited
    /\ loops[1].status = <<1, 0>>
    /\ Len(loops[1].answered) = 1

=============================================================================
